---- MODULE Spec2Model ----
(***************************************************************************)
(* A model of the query-AST visitor of graphql-parser:                     *)
(*   src/src/visitor/visitor.rs    QueryAstNode, QueryVisitor,             *)
(*                                 VisitorAction, VisitorStack, visit      *)
(*   src/src/visitor/type_info.rs  TypeInfo                                *)
(*                                                                         *)
(* A `&'ast QueryAstNode` is modelled by the node value it borrows (the    *)
(* type derives PartialEq, so two references compare by value).  An        *)
(* Option<X> is a sequence of length at most one: <<>> is None and <<x>>   *)
(* is Some(x).                                                             *)
(***************************************************************************)
EXTENDS Naturals, Sequences, FiniteSets

\* Bounds of the model: the widest selection set, and the number of labels
\* for which a visitor's enter hook returns something else than NoAction.
MaxItems == 3
MaxEdits == 2

None == <<>>
Some(x) == <<x>>

(***************************************************************************)
(* The AST (QueryAstNode): a node has a kind (the enum variant), a name    *)
(* (a field's name) and the ordered list of its child nodes.               *)
(***************************************************************************)
MkNode(k, n, its) == [kind |-> k, name |-> n, items |-> its]

FieldNames == <<"a", "b", "c", "d", "e">>

SelectionSet(its) == MkNode("SelectionSet", "", its)
Field(n, its) == MkNode("Field", n, <<SelectionSet(its)>>)
OperationDefinition(its) == MkNode("OperationDefinition", "", <<SelectionSet(its)>>)
Document(its) == MkNode("Document", "", <<OperationDefinition(its)>>)

\* The fields f1 .. fm, none with a selection of its own.
Leaves(m) == [i \in 1..m |-> Field(FieldNames[i], <<>>)]

\* The document { f1, ..., fn { f1, ..., fm } }: n fields, the last one
\* selecting m fields.  Doc(3, 3) is { a, b, c { a, b, c } }.
Doc(n, m) ==
    Document([i \in 1..n |->
                 Field(FieldNames[i], IF i = n THEN Leaves(m) ELSE <<>>)])

Documents == {Doc(n, m) : n \in 1..MaxItems, m \in 0..MaxItems}

\* What a visitor matches a node on: a field's name, any other node's kind.
Label(n) == IF n.kind = "Field" THEN n.name ELSE n.kind

Labels ==
    {"Document", "OperationDefinition", "SelectionSet"}
        \cup {FieldNames[i] : i \in 1..MaxItems}

(***************************************************************************)
(* VisitorAction and QueryVisitor.                                         *)
(***************************************************************************)
VisitorActions == {"NoAction", "Skip", "Break", "DeleteNode", "ReplaceNode"}

\* What a call of a hook ends in: it returns a VisitorAction, or it panics
\* (the hooks return VisitorAction, which has no error variant: a panic is
\* the one way a hook has of signalling a fatal error).
HookOutcomes == VisitorActions \cup {"Panic"}

\* The node a ReplaceNode action carries: a field with no selection for a
\* field, a selection set of that one field for a selection set.
ReplacementName == "enter"

Replacement(n) ==
    CASE n.kind = "Field" -> Field(ReplacementName, <<>>)
      [] n.kind = "SelectionSet" -> SelectionSet(<<Field(ReplacementName, <<>>)>>)
      [] n.kind = "OperationDefinition" ->
            OperationDefinition(<<Field(ReplacementName, <<>>)>>)
      [] OTHER -> Document(<<Field(ReplacementName, <<>>)>>)

\* The trait's provided methods.
DefaultEnter == "Skip"
DefaultLeave == "Skip"

\* A visitor: which hooks it overrides, and what an overriding hook returns
\* (enter by the node's label, leave the same action for every node).
EnterPolicies ==
    {p \in [Labels -> HookOutcomes] :
        Cardinality({l \in Labels : p[l] # "NoAction"}) <= MaxEdits}

NoOverride == [l \in Labels |-> "NoAction"]

Visitors ==
    {[overridesEnter |-> TRUE, overridesLeave |-> TRUE, onEnter |-> p, onLeave |-> a] :
        p \in EnterPolicies, a \in HookOutcomes}
    \cup {[overridesEnter |-> TRUE, overridesLeave |-> FALSE, onEnter |-> p,
           onLeave |-> "NoAction"] : p \in EnterPolicies}
    \cup {[overridesEnter |-> FALSE, overridesLeave |-> TRUE, onEnter |-> NoOverride,
           onLeave |-> a] : a \in HookOutcomes}
    \cup {[overridesEnter |-> FALSE, overridesLeave |-> FALSE, onEnter |-> NoOverride,
           onLeave |-> "NoAction"]}

enter(v, n) ==
    IF v.overridesEnter
    THEN (IF Label(n) \in Labels THEN v.onEnter[Label(n)] ELSE "NoAction")
    ELSE DefaultEnter

leave(v, n) == IF v.overridesLeave THEN v.onLeave ELSE DefaultLeave

(***************************************************************************)
(* TypeInfo: the schema it is built from, its stacks and its accessors.    *)
(***************************************************************************)
\* A type reference of the schema: String is NamedType("String"), [Pet] is
\* ListType("Pet").
NamedType(n) == [name |-> n, list |-> FALSE]
ListType(n) == [name |-> n, list |-> TRUE]

FieldDef(n, t, as) == [name |-> n, type |-> t, args |-> as]

\* TEST_SCHEMA: the fields of each composite type, each with its type and
\* the types of its arguments.
NoArgs == [x \in {} |-> NamedType("")]

TEST_SCHEMA ==
    [Pet |-> [name |-> FieldDef("name", NamedType("String"), NoArgs)],
     Dog |-> [name |-> FieldDef("name", NamedType("String"), NoArgs)],
     Cat |-> [name |-> FieldDef("name", NamedType("String"), NoArgs)],
     Human |-> [name |-> FieldDef("name", NamedType("String"), NoArgs),
                pets |-> FieldDef("pets", ListType("Pet"), NoArgs)],
     Alien |-> [name |-> FieldDef("name", NamedType("String"),
                                  [surname |-> NamedType("Boolean")])],
     QueryRoot |-> [human |-> FieldDef("human", NamedType("Human"),
                                       [id |-> NamedType("ID")]),
                    alien |-> FieldDef("alien", NamedType("Alien"), NoArgs)]]

\* `schema { query: QueryRoot }`.
QueryType == "QueryRoot"

\* TypeInfo::new: every stack empty, no directive, argument or enum value.
TypeInfoNew ==
    [type_stack |-> <<>>,
     parent_type_stack |-> <<>>,
     input_type_stack |-> <<>>,
     field_def_stack |-> <<>>,
     default_value_stack |-> <<>>,
     directive |-> None,
     argument |-> None,
     enum_value |-> None]

\* An accessor that answers with the oldest entry of the stack.
get_type_Bottom(ti) ==
    IF Len(ti.type_stack) > 0 THEN ti.type_stack[1] ELSE None

\* The accessors: the last entry of the stack (an Option), None when the
\* stack is empty.
get_type(ti) ==
    IF Len(ti.type_stack) > 0 THEN ti.type_stack[Len(ti.type_stack)] ELSE None

\* An accessor that answers with the oldest entry of the parent type stack.
get_parent_type_Bottom(ti) ==
    IF Len(ti.parent_type_stack) > 0 THEN ti.parent_type_stack[1] ELSE None

get_parent_type(ti) ==
    IF Len(ti.parent_type_stack) > 0
    THEN ti.parent_type_stack[Len(ti.parent_type_stack)]
    ELSE None

get_input_type(ti) ==
    IF Len(ti.input_type_stack) > 0
    THEN ti.input_type_stack[Len(ti.input_type_stack)]
    ELSE None

(***************************************************************************)
(* visit: its arguments, its locals, the hook calls it has made, its       *)
(* position and the value it returned.  type_info is the tracker, and walk *)
(* the recursive descent that calls the tracker's enter and leave.         *)
(***************************************************************************)
VARIABLES root, visitor, stack, keys, index, edits, node, key, parent, path,
          ancestors, new_root, is_first_loop, calls, pc, result,
          type_info, walk

vars == <<root, visitor, stack, keys, index, edits, node, key, parent, path,
          ancestors, new_root, is_first_loop, calls, pc, result,
          type_info, walk>>

\* The descent before it starts: at the root, about to enter it.  log is the
\* calls the tracker received, inner_log the calls it passed on to the
\* visitor it wraps, ret what its last call returned and inner_ret what
\* the wrapped visitor returned to it; open lists the pushes not yet popped
\* (stack and entry, oldest first), saved the trackers as they were before
\* each enter not yet matched by its leave, restored the one that the last
\* leave matches, and underflow records a pop that found its stack empty.
WalkStart(ph) ==
    [phase |-> ph, path |-> <<>>, last |-> "none", log |-> <<>>,
     inner_log |-> <<>>, ret |-> None, inner_ret |-> None, open |-> <<>>,
     saved |-> <<>>, restored |-> None, underflow |-> FALSE]

\* new_root as a copy of the root that leaves the root's children behind.
InitNewRoot_Shallow(r) == [r EXCEPT !.items = <<>>]

\* `let mut new_root = root`.
InitNewRoot(r) == r

\* ancestors starting with the root in it.
InitAncestors_Root(r) == <<r>>

\* `let mut ancestors = vec![]`.
InitAncestors(r) == <<>>

Init ==
    /\ root \in Documents
    /\ visitor \in Visitors
    /\ stack = None
    /\ keys = <<root>>
    /\ index = 0
    /\ edits = <<>>
    /\ node = None
    /\ key = None
    /\ parent = None
    /\ path = <<>>
    /\ ancestors = InitAncestors(root)
    /\ new_root = InitNewRoot(root)
    /\ is_first_loop = TRUE
    /\ calls = <<>>
    /\ pc = "loop"
    /\ result = None
    /\ type_info = TypeInfoNew
    /\ walk = WalkStart("idle")

\* A cursor that is never moved.
NextIndex_Stuck(first, i) == i

\* The cursor at the top of the loop: as it is in the first pass, one
\* further in every other.
NextIndex(first, i) == IF first THEN i ELSE i + 1

\* A frame left one entry late.
is_leaving_OffByOne(i, ks) == i = Len(ks) + 1

\* `let is_leaving` and `let is_edited`, with i the cursor after the increment.
is_leaving(i, ks) == i = Len(ks)
is_edited(i, ks, es) == is_leaving(i, ks) /\ Len(es) # 0

\* The rebuild of an edited node: the loop over the edits binds each
\* (key, value) and assigns nothing, so the node is left as it is.
ApplyEdits(n, es) == n

\* Keys taken from the stack whether or not it holds a frame.
PopKeys_Clear(st, ks) == IF st # None THEN st[1].keys ELSE <<>>

\* The frame restored by `if let Some(inner_stack) = stack`.  A VisitorStack
\* holds its predecessor in a Box that is not optional.
PopIndex(st, i) == IF st # None THEN st[1].index ELSE i
PopKeys(st, ks) == IF st # None THEN st[1].keys ELSE ks
PopEdits(st, es) == IF st # None THEN st[1].edits ELSE es
PopStack(st) == IF st # None THEN Some(st[1].previous) ELSE st

\* A step that edits the borrowed tree in place, dropping the root's children.
RootAfterStep_InPlace(r) == [r EXCEPT !.items = <<>>]

\* visit takes `root: &'ast QueryAstNode`: a shared borrow, which no step
\* of visit can write through.
RootAfterStep(r) == r

\* One pass through the body of `loop`: the cursor's increment, then the
\* leaving branch or the entering branch, then the exit test (which the
\* `continue` of the entering branch skips).
LoopIteration ==
    /\ pc = "loop"
    /\ LET i == NextIndex(is_first_loop, index)
       IN  /\ is_first_loop' = FALSE
           /\ IF is_leaving(i, keys)
              THEN IF Len(ancestors) # 0 /\ Len(path) = 0
                   THEN \* path[path.len() - 1] on an empty path
                        /\ pc' = "panicked"
                        /\ index' = i
                        /\ UNCHANGED <<stack, keys, edits, node, key, parent,
                                       path, ancestors>>
                   ELSE /\ key' = IF Len(ancestors) = 0
                                  THEN None
                                  ELSE Some(path[Len(path)])
                        /\ node' = IF is_edited(i, keys, edits) /\ parent # None
                                   THEN Some(ApplyEdits(parent[1], edits))
                                   ELSE parent
                        /\ parent' = IF Len(ancestors) = 0
                                     THEN None
                                     ELSE Some(ancestors[Len(ancestors)])
                        /\ ancestors' = IF Len(ancestors) = 0
                                        THEN ancestors
                                        ELSE SubSeq(ancestors, 1, Len(ancestors) - 1)
                        /\ index' = PopIndex(stack, i)
                        /\ keys' = PopKeys(stack, keys)
                        /\ edits' = PopEdits(stack, edits)
                        /\ stack' = PopStack(stack)
                        /\ UNCHANGED path
                        /\ pc' = IF stack' = None THEN "after_loop" ELSE "loop"
              ELSE IF parent # None /\ i >= Len(keys)
                   THEN \* keys[index] past the end of keys
                        /\ pc' = "panicked"
                        /\ index' = i
                        /\ UNCHANGED <<stack, keys, edits, node, key, parent,
                                       path, ancestors>>
                   ELSE /\ index' = i
                        /\ key' = IF parent # None THEN Some(keys[i + 1]) ELSE None
                        /\ IF node = None
                           THEN \* continue
                                /\ pc' = "loop"
                                /\ UNCHANGED path
                           ELSE /\ path' = IF parent # None
                                           THEN Append(path, keys[i + 1])
                                           ELSE path
                                /\ pc' = IF stack = None THEN "after_loop" ELSE "loop"
                        /\ UNCHANGED <<stack, keys, edits, node, parent, ancestors>>
    /\ root' = RootAfterStep(root)
    /\ UNCHANGED <<visitor, new_root, calls, result, type_info, walk>>

\* The root's first child handed back when there is no edit.
ReturnValue_Child(es, nr) == IF Len(es) # 0 THEN es[Len(es)][2] ELSE nr.items[1]

\* After the loop: the last edit's value if there is an edit, else the root.
ReturnValue(es, nr) == IF Len(es) # 0 THEN es[Len(es)][2] ELSE nr

Return ==
    /\ pc = "after_loop"
    /\ new_root' = ReturnValue(edits, new_root)
    /\ result' = Some(new_root')
    /\ pc' = "done"
    /\ root' = RootAfterStep(root)
    /\ UNCHANGED <<visitor, stack, keys, index, edits, node, key, parent, path,
                   ancestors, is_first_loop, calls, type_info, walk>>

Next == LoopIteration \/ Return

Spec == Init /\ [][Next]_vars

\* visit is one synchronous call: a step that can be taken is taken.
LiveSpec == Spec /\ WF_vars(Next)

(***************************************************************************)
(* Trees: a node of a tree is named by its path, the child indexes from    *)
(* the root down.                                                          *)
(***************************************************************************)
RECURSIVE PathsOf(_)
PathsOf(n) ==
    {<<>>} \cup UNION {{<<i>> \o p : p \in PathsOf(n.items[i])} :
                          i \in 1..Len(n.items)}

RECURSIVE At(_, _)
At(n, p) == IF p = <<>> THEN n ELSE At(n.items[p[1]], Tail(p))

IsPrefix(p, q) == Len(p) <= Len(q) /\ SubSeq(q, 1, Len(p)) = p
IsProperPrefix(p, q) == IsPrefix(p, q) /\ p # q

(***************************************************************************)
(* The tracker's enter and leave, and the recursive descent that calls     *)
(* them for every node of a query, passing each call on to the visitor the *)
(* tracker wraps.                                                          *)
(***************************************************************************)
Argument(n) == MkNode("Argument", n, <<>>)

\* The queries { human(id: 4) { ... } } whose inner selection is made of
\* name, pets { name } and unknown, in any order, MaxItems at most.
HumanSelections ==
    {Field("name", <<>>), Field("pets", <<Field("name", <<>>)>>),
     Field("unknown", <<>>)}

HumanQuery(its) ==
    Document(<<MkNode("Field", "human", <<Argument("id"), SelectionSet(its)>>)>>)

TrackedDocuments ==
    {HumanQuery(its) : its \in UNION {[1..n -> HumanSelections] : n \in 0..MaxItems}}

\* The visitors the tracker wraps in the descent: those whose enter hook
\* returns something else than NoAction for selection sets at most, and none
\* of whose hooks panics.
TrackedVisitors ==
    {v \in Visitors :
        /\ v.onLeave # "Panic"
        /\ \A l \in Labels :
              v.onEnter[l] # "NoAction" =>
                  (l = "SelectionSet" /\ v.onEnter[l] # "Panic")}

\* The stacks that entering a node of kind k pushes on and leaving it pops.
StacksOf(k) ==
    CASE k = "OperationDefinition" -> {"type_stack"}
      [] k = "SelectionSet" -> {"parent_type_stack"}
      [] k = "Field" -> {"type_stack", "field_def_stack"}
      [] k = "Argument" -> {"input_type_stack"}
      [] OTHER -> {}

Pop(st) == IF st = <<>> THEN st ELSE SubSeq(st, 1, Len(st) - 1)

\* The definition of field n on the composite type pt, None on a miss.
LookupField(pt, n) ==
    IF pt # None /\ pt[1] \in DOMAIN TEST_SCHEMA /\ n \in DOMAIN TEST_SCHEMA[pt[1]]
    THEN Some(TEST_SCHEMA[pt[1]][n])
    ELSE None

\* The type of argument n of the field definition fd, None on a miss.
LookupArgument(fd, n) ==
    IF fd # None /\ n \in DOMAIN fd[1].args THEN Some(fd[1].args[n]) ELSE None

\* A tracker that forgets the field definition when it leaves a field.
TrackerLeave_KeepsFieldDef(ti, n) ==
    [s \in DOMAIN ti |->
        IF s \in StacksOf(n.kind) \ {"field_def_stack"} THEN Pop(ti[s]) ELSE ti[s]]

\* The tracker on entering node n: the root type for an operation, the
\* named composite type of the current type for a selection set, the
\* definition and the type of the field looked up on the parent type for a
\* field, the type of the argument looked up on the field definition for
\* an argument; None where the lookup misses.
TrackerEnter(ti, n) ==
    CASE n.kind = "OperationDefinition" ->
            [ti EXCEPT !.type_stack = Append(@, Some(NamedType(QueryType)))]
      [] n.kind = "SelectionSet" ->
            LET t == get_type(ti)
            IN  [ti EXCEPT !.parent_type_stack =
                    Append(@, IF t # None /\ t[1].name \in DOMAIN TEST_SCHEMA
                              THEN Some(t[1].name)
                              ELSE None)]
      [] n.kind = "Field" ->
            LET fd == LookupField(get_parent_type(ti), n.name)
            IN  [ti EXCEPT !.field_def_stack = Append(@, fd),
                           !.type_stack =
                               Append(@, IF fd # None THEN Some(fd[1].type) ELSE None)]
      [] n.kind = "Argument" ->
            LET fd == IF ti.field_def_stack = <<>>
                      THEN None
                      ELSE ti.field_def_stack[Len(ti.field_def_stack)]
            IN  [ti EXCEPT !.argument = Some(n.name),
                           !.input_type_stack = Append(@, LookupArgument(fd, n.name))]
      [] OTHER -> ti

\* The tracker on leaving node n: the stacks its kind pushed on are popped.
TrackerLeave(ti, n) ==
    [s \in DOMAIN ti |->
        IF s \in StacksOf(n.kind)
        THEN Pop(ti[s])
        ELSE IF s = "argument" /\ n.kind = "Argument" THEN None ELSE ti[s]]

\* What the tracker returns from a hook, given what the visitor it wraps
\* returned to it.
TrackerReturn_NoAction(a) == "NoAction"

TrackerReturn(a) == a

StackNames ==
    <<"type_stack", "parent_type_stack", "input_type_stack", "field_def_stack">>

\* The open pushes after a step from tracker ti to tracker ti2: a stack that
\* grew adds its new last entry, a stack that shrank loses its latest.
RECURSIVE WithoutLast(_, _)
WithoutLast(op, s) ==
    IF op = <<>>
    THEN op
    ELSE IF op[Len(op)].stack = s
         THEN SubSeq(op, 1, Len(op) - 1)
         ELSE Append(WithoutLast(SubSeq(op, 1, Len(op) - 1), s), op[Len(op)])

RECURSIVE OpenAfter(_, _, _, _)
OpenAfter(op, ti, ti2, k) ==
    IF k > Len(StackNames)
    THEN op
    ELSE LET s == StackNames[k]
             op2 == IF Len(ti2[s]) > Len(ti[s])
                    THEN Append(op, [stack |-> s, entry |-> ti2[s][Len(ti2[s])]])
                    ELSE IF Len(ti2[s]) < Len(ti[s]) THEN WithoutLast(op, s) ELSE op
         IN  OpenAfter(op2, ti, ti2, k + 1)

WalkInit ==
    /\ root \in TrackedDocuments
    /\ visitor \in TrackedVisitors
    /\ stack = None
    /\ keys = <<root>>
    /\ index = 0
    /\ edits = <<>>
    /\ node = None
    /\ key = None
    /\ parent = None
    /\ path = <<>>
    /\ ancestors = InitAncestors(root)
    /\ new_root = InitNewRoot(root)
    /\ is_first_loop = TRUE
    /\ calls = <<>>
    /\ pc = "loop"
    /\ result = None
    /\ type_info = TypeInfoNew
    /\ walk = WalkStart("enter")

\* The descent enters the node at its position: the tracker pushes, calls
\* the enter hook of the visitor it wraps, and returns; the descent goes on
\* to the node's first child, or to leaving the node if it has none.
WalkEnter ==
    /\ walk.phase = "enter"
    /\ LET n == At(root, walk.path)
           ti2 == TrackerEnter(type_info, n)
           a == enter(visitor, n)
       IN  /\ type_info' = ti2
           /\ walk' = [walk EXCEPT
                  !.phase = IF n.items = <<>> THEN "leave" ELSE "enter",
                  !.path = IF n.items = <<>> THEN @ ELSE Append(@, 1),
                  !.last = "enter",
                  !.log = Append(@, [hook |-> "enter", path |-> walk.path]),
                  !.inner_log = Append(@, [hook |-> "enter", path |-> walk.path]),
                  !.inner_ret = Some(a),
                  !.ret = Some(TrackerReturn(a)),
                  !.open = OpenAfter(@, type_info, ti2, 1),
                  !.saved = Append(@, type_info),
                  !.restored = None]
    /\ UNCHANGED <<root, visitor, stack, keys, index, edits, node, key, parent,
                   path, ancestors, new_root, is_first_loop, calls, pc, result>>

\* The descent leaves the node at its position: the tracker pops, calls the
\* leave hook of the visitor it wraps, and returns; the descent goes on to
\* the node's next sibling, or to leaving its parent, or ends at the root.
WalkLeave ==
    /\ walk.phase = "leave"
    /\ LET n == At(root, walk.path)
           ti2 == TrackerLeave(type_info, n)
           a == leave(visitor, n)
           d == Len(walk.path)
           up == SubSeq(walk.path, 1, d - 1)
       IN  /\ type_info' = ti2
           /\ walk' = [walk EXCEPT
                  !.phase = IF d = 0
                            THEN "done"
                            ELSE IF walk.path[d] < Len(At(root, up).items)
                                 THEN "enter"
                                 ELSE "leave",
                  !.path = IF d = 0
                           THEN @
                           ELSE IF walk.path[d] < Len(At(root, up).items)
                                THEN Append(up, walk.path[d] + 1)
                                ELSE up,
                  !.last = "leave",
                  !.log = Append(@, [hook |-> "leave", path |-> walk.path]),
                  !.inner_log = Append(@, [hook |-> "leave", path |-> walk.path]),
                  !.inner_ret = Some(a),
                  !.ret = Some(TrackerReturn(a)),
                  !.open = OpenAfter(@, type_info, ti2, 1),
                  !.saved = Pop(@),
                  !.restored = IF walk.saved = <<>>
                               THEN None
                               ELSE Some(walk.saved[Len(walk.saved)]),
                  !.underflow = @ \/ \E s \in StacksOf(n.kind) : type_info[s] = <<>>]
    /\ UNCHANGED <<root, visitor, stack, keys, index, edits, node, key, parent,
                   path, ancestors, new_root, is_first_loop, calls, pc, result>>

WalkNext == WalkEnter \/ WalkLeave

WalkSpec == WalkInit /\ [][WalkNext]_vars

\* The positions in the log of the calls of hook h for the node at path p (an
\* entry of the log is [hook, path, node]).
CallsOf(h, p) == {i \in 1..Len(calls) : calls[i].hook = h /\ calls[i].path = p}

\* A visitor both of whose hooks return NoAction for every node of t.
AlwaysNoAction(v, t) ==
    \A p \in PathsOf(t) :
        enter(v, At(t, p)) = "NoAction" /\ leave(v, At(t, p)) = "NoAction"

\* C1: when both hooks return NoAction for every node, the tree visit
\* returns is deeply equal to the tree it was given.
C1_NoActionReturnsEqualTree ==
    (pc = "done" /\ AlwaysNoAction(visitor, root)) => result = Some(root)

C1_Witness ==
    /\ pc = "done"
    /\ AlwaysNoAction(visitor, root)
    /\ root = Doc(MaxItems, MaxItems)
    /\ result = Some(Doc(MaxItems, MaxItems))

\* C2: under a visitor that always returns NoAction, every node is entered
\* once and left once, a node is entered before its descendants and left
\* after them, siblings are entered in slot order, and nothing else is called.
C2_EveryNodeEnteredAndLeftOnce ==
    (pc = "done" /\ AlwaysNoAction(visitor, root)) =>
        /\ \A p \in PathsOf(root) :
              /\ Cardinality(CallsOf("enter", p)) = 1
              /\ Cardinality(CallsOf("leave", p)) = 1
        /\ Len(calls) = 2 * Cardinality(PathsOf(root))
        /\ \A p, q \in PathsOf(root) :
              /\ IsProperPrefix(p, q) =>
                    /\ \A i \in CallsOf("enter", p), j \in CallsOf("enter", q) : i < j
                    /\ \A i \in CallsOf("leave", p), j \in CallsOf("leave", q) : j < i
              /\ (/\ p # <<>>
                  /\ Len(q) = Len(p)
                  /\ SubSeq(q, 1, Len(q) - 1) = SubSeq(p, 1, Len(p) - 1)
                  /\ p[Len(p)] < q[Len(q)]) =>
                    \A i \in CallsOf("leave", p), j \in CallsOf("enter", q) : i < j

\* The hooks of v return only NoAction and the actions of set as.
OnlyActions(v, as) ==
    /\ v.overridesEnter
    /\ leave(v, root) = "NoAction"
    /\ \A l \in Labels : v.onEnter[l] \in as \cup {"NoAction"}

\* No node of t makes v's enter hook return anything but NoAction.
EnterLeavesAlone(v, t) ==
    \A p \in PathsOf(t) : enter(v, At(t, p)) = "NoAction"

\* The node at path p is reached by a traversal in which ReplaceNode is the
\* only edit, and enter returns ReplaceNode for it.
ReplacedOnEnter(p) ==
    /\ OnlyActions(visitor, {"ReplaceNode"})
    /\ enter(visitor, At(root, p)) = "ReplaceNode"
    /\ \A q \in PathsOf(root) :
          IsProperPrefix(q, p) => enter(visitor, At(root, q)) = "NoAction"

\* C3: when enter returns ReplaceNode(R) for the node N of a slot, the
\* returned tree holds R at that slot (R itself when the visitor edits
\* nothing of R, else an edited R), and no longer N.
C3_ReplacementIsInResult ==
    pc = "done" =>
        \A p \in PathsOf(root) :
            ReplacedOnEnter(p) =>
                /\ result # None
                /\ p \in PathsOf(result[1])
                /\ At(result[1], p) # At(root, p)
                /\ At(result[1], p).kind = Replacement(At(root, p)).kind
                /\ EnterLeavesAlone(visitor, Replacement(At(root, p))) =>
                      At(result[1], p) = Replacement(At(root, p))

TopPath == <<1, 1>>
TopItems(t) == At(t, TopPath).items
TopField(i) == TopPath \o <<i>>
WithTopItems(its) == Document(its)

\* The entries of its, with the DeleteNode and ReplaceNode that v's enter
\* hook returns for the first k of them applied: a deleted entry is left
\* out, a replaced one gives its place to the replacement.
RECURSIVE EditFirst(_, _, _)
EditFirst(v, its, k) ==
    IF its = <<>> \/ k = 0
    THEN its
    ELSE LET a == enter(v, Head(its))
             rest == EditFirst(v, Tail(its), k - 1)
         IN  CASE a = "DeleteNode" -> rest
               [] a = "ReplaceNode" -> <<Replacement(Head(its))>> \o rest
               [] OTHER -> <<Head(its)>> \o rest

\* The same for every entry, and for the selection of every entry kept.
RECURSIVE EditAll(_, _)
EditAll(v, its) ==
    IF its = <<>>
    THEN its
    ELSE LET a == enter(v, Head(its))
             rest == EditAll(v, Tail(its))
         IN  CASE a = "DeleteNode" -> rest
               [] a = "ReplaceNode" -> <<Replacement(Head(its))>> \o rest
               [] OTHER -> <<Field(Head(its).name,
                                   EditAll(v, Head(its).items[1].items))>> \o rest

FieldLabels == {FieldNames[i] : i \in 1..MaxItems}

\* The visitor edits fields only: its enter hook returns DeleteNode or
\* ReplaceNode for some field names and NoAction for every other node.
EditsFieldsOnly(v) ==
    /\ OnlyActions(v, {"DeleteNode", "ReplaceNode"})
    /\ \A l \in Labels \ FieldLabels : v.onEnter[l] = "NoAction"

\* The k-th field of the outermost selection set is the first node for
\* which a hook returns Break, and the j-th field, before it, is edited.
BreakAfterEdit(j, k) ==
    /\ j < k
    /\ k <= Len(TopItems(root))
    /\ OnlyActions(visitor, {"Break", "DeleteNode", "ReplaceNode"})
    /\ \A l \in Labels \ FieldLabels : visitor.onEnter[l] = "NoAction"
    /\ enter(visitor, TopItems(root)[k]) = "Break"
    /\ enter(visitor, TopItems(root)[j]) \in {"DeleteNode", "ReplaceNode"}

\* C5: when Break is returned at a node, no hook is called afterwards (the
\* call that returned Break is the last one), the edits accepted before it
\* are in the returned tree and what was not visited is as it was.
C5_BreakKeepsEarlierEdits ==
    pc = "done" =>
        \A j, k \in 1..MaxItems :
            BreakAfterEdit(j, k) =>
                /\ \A i \in 1..Len(calls) :
                      calls[i].path = TopField(k) => i = Len(calls)
                /\ \A q \in PathsOf(root) :
                      IsProperPrefix(TopField(k), q) =>
                          CallsOf("enter", q) \cup CallsOf("leave", q) = {}
                /\ result = Some(WithTopItems(EditFirst(visitor, TopItems(root), k - 1)))

\* C6: a sequence that receives DeleteNode and ReplaceNode edits is rebuilt
\* as its snapshot with the deleted entries left out and the replaced ones
\* substituted in place, the entries kept in their order ({ a, b, c } with b
\* deleted is { a, c }).
C6_SequenceRebuiltInOrder ==
    (pc = "done" /\ EditsFieldsOnly(visitor)) =>
        result = Some(WithTopItems(EditAll(visitor, TopItems(root))))

\* The node at path p is reached by a traversal in which Skip is the only
\* action but NoAction, and enter returns Skip for it.
SkippedOnEnter(p) ==
    /\ OnlyActions(visitor, {"Skip"})
    /\ enter(visitor, At(root, p)) = "Skip"
    /\ \A q \in PathsOf(root) :
          IsProperPrefix(q, p) => enter(visitor, At(root, q)) = "NoAction"

\* C7: when enter returns Skip for a node, no hook is called for any of its
\* descendants, leave is called once for the node, and its next sibling
\* is entered.
C7_SkipStillLeaves ==
    pc = "done" =>
        \A p \in PathsOf(root) :
            SkippedOnEnter(p) =>
                /\ \A q \in PathsOf(root) :
                      IsProperPrefix(p, q) =>
                          CallsOf("enter", q) \cup CallsOf("leave", q) = {}
                /\ Cardinality(CallsOf("leave", p)) = 1
                /\ \A q \in PathsOf(root) :
                      (/\ p # <<>>
                       /\ Len(q) = Len(p)
                       /\ SubSeq(q, 1, Len(q) - 1) = SubSeq(p, 1, Len(p) - 1)
                       /\ q[Len(q)] = p[Len(p)] + 1) =>
                          Cardinality(CallsOf("enter", q)) = 1

\* C8: a visitor that overrides neither hook gets NoAction from both, and
\* visit enters and leaves every node under it.
C8_DefaultHooksAreNoAction ==
    (pc = "done" /\ ~visitor.overridesEnter /\ ~visitor.overridesLeave) =>
        \A p \in PathsOf(root) :
            /\ enter(visitor, At(root, p)) = "NoAction"
            /\ leave(visitor, At(root, p)) = "NoAction"
            /\ CallsOf("enter", p) # {}
            /\ CallsOf("leave", p) # {}

\* A hook of the visitor signals a fatal error at the root, the first node
\* of every traversal.
FatalAtRoot ==
    enter(visitor, root) = "Panic"
        \/ (enter(visitor, root) = "Skip" /\ leave(visitor, root) = "Panic")

\* C9: when a hook signals a fatal error, visit stops there: it does not
\* run to its return, and it hands back no tree.
C9_FatalErrorReturnsNoTree ==
    FatalAtRoot => (pc # "done" /\ result = None)

\* The visitor of the test node_editing_on_enter and of the scenario: enter
\* returns ReplaceNode for every selection set and NoAction for the rest,
\* leave returns NoAction.
ReplacesSelectionSets(v) ==
    /\ OnlyActions(v, {"ReplaceNode"})
    /\ \A l \in Labels : v.onEnter[l] = "ReplaceNode" <=> l = "SelectionSet"

\* C10: { a, b, c { a, b, c } } under the visitor that replaces every
\* selection set by a selection set of one field comes back as the document
\* of that one field: the outer selection set is entered once, and none of
\* the fields a, b, c of the original is entered.
C10_ReplaceSelectionSetScenario ==
    (pc = "done" /\ root = Doc(3, 3) /\ ReplacesSelectionSets(visitor)) =>
        /\ result = Some(WithTopItems(<<Field(ReplacementName, <<>>)>>))
        /\ Cardinality(CallsOf("enter", TopPath)) = 1
        /\ \A i \in 1..Len(calls) :
              calls[i].node.kind = "Field" => calls[i].node.name = ReplacementName

\* The entry of the latest push on stack s that no pop has undone yet, None
\* when there is none.
LastOpen(s) ==
    LET is == {i \in 1..Len(walk.open) : walk.open[i].stack = s}
    IN  IF is = {}
        THEN None
        ELSE walk.open[CHOOSE i \in is : \A j \in is : j <= i].entry

\* C11: each accessor returns the entry most recently pushed on its own
\* stack and not yet popped, None when that stack is empty; all three
\* return None on a tracker just constructed.
C11_AccessorsReturnTop ==
    /\ get_type(type_info) = LastOpen("type_stack")
    /\ get_parent_type(type_info) = LastOpen("parent_type_stack")
    /\ get_input_type(type_info) = LastOpen("input_type_stack")
    /\ type_info.type_stack = <<>> => get_type(type_info) = None
    /\ type_info.parent_type_stack = <<>> => get_parent_type(type_info) = None
    /\ type_info.input_type_stack = <<>> => get_input_type(type_info) = None
    /\ walk.last = "none" =>
          /\ get_type(type_info) = None
          /\ get_parent_type(type_info) = None
          /\ get_input_type(type_info) = None

C11_Witness ==
    /\ Len(type_info.type_stack) = 2
    /\ get_type(type_info) = Some(NamedType("Human"))
    /\ get_parent_type(type_info) = Some("QueryRoot")
    /\ get_input_type(type_info) = Some(NamedType("ID"))

LastNode == At(root, walk.log[Len(walk.log)].path)
BeforeEnter == walk.saved[Len(walk.saved)]

DeletedOnEnter(p) ==
    /\ p # <<>>
    /\ OnlyActions(visitor, {"DeleteNode"})
    /\ \A l \in Labels : visitor.onEnter[l] = "DeleteNode" => l = Label(At(root, p))
    /\ enter(visitor, At(root, p)) = "DeleteNode"
    /\ \A q \in PathsOf(root) :
          IsProperPrefix(q, p) => enter(visitor, At(root, q)) = "NoAction"

\* C14: when enter returns DeleteNode for a node, the node is entered once,
\* no hook is called for its descendants, the returned tree no longer holds
\* it, and its next sibling is entered.
C14_DeleteOnEnter ==
    pc = "done" =>
        \A p \in PathsOf(root) :
            DeletedOnEnter(p) =>
                /\ Cardinality(CallsOf("enter", p)) = 1
                /\ \A q \in PathsOf(root) :
                      IsProperPrefix(p, q) =>
                          CallsOf("enter", q) \cup CallsOf("leave", q) = {}
                /\ result # None
                /\ \A q \in PathsOf(result[1]) :
                      Label(At(result[1], q)) # Label(At(root, p))
                /\ \A q \in PathsOf(root) :
                      (/\ Len(q) = Len(p)
                       /\ SubSeq(q, 1, Len(q) - 1) = SubSeq(p, 1, Len(p) - 1)
                       /\ q[Len(q)] = p[Len(p)] + 1) =>
                          Cardinality(CallsOf("enter", q)) = 1

RECURSIVE Frames(_)
Frames(st) == IF st = None THEN 0 ELSE 1 + Frames(Some(st[1].previous))

NeverReplaces(v) ==
    /\ v.onLeave # "ReplaceNode"
    /\ \A l \in Labels : v.onEnter[l] # "ReplaceNode"

\* C19: under a visitor that never returns ReplaceNode the loop comes to its
\* exit with no frame left, and every pass but the first moves the cursor
\* on, the pass that takes `continue` included.
C19_LoopTerminates ==
    /\ NeverReplaces(visitor) => <>(pc = "done" /\ stack = None)
    /\ [][(pc = "loop" /\ ~is_first_loop /\ stack = None) => index' = index + 1]_vars

C19_Witness ==
    /\ pc = "done"
    /\ stack = None
    /\ NeverReplaces(visitor)
    /\ index = 1
    /\ visitor.onEnter["SelectionSet"] = "DeleteNode"

\* C20: the cursor stays within 0 .. keys.len(), and no step reads keys
\* past its end or the last entry of an empty path.
C20_CursorInBounds ==
    /\ index <= Len(keys)
    /\ pc # "panicked"

C20_Witness ==
    /\ pc = "after_loop"
    /\ index = Len(keys)
    /\ key = None
    /\ root = Doc(1, MaxItems)

====
